---- MODULE Spec2Model ----
(***************************************************************************)
(* Model of ipfs-lite's util.go: DefaultBootstrapPeers, the package-level  *)
(* connMgr and Libp2pOptionsExtra (with its auto-relay peer source),       *)
(* SetupLibp2p and newDHT.                                                 *)
(*                                                                         *)
(* go-libp2p and go-libp2p-kad-dht are consumed through their option API:  *)
(* an Option is a function on the library's Config, options are applied in *)
(* the order given, and construction then builds the host, calls the       *)
(* routing constructor once and starts listening.  Each library call is    *)
(* modelled at the call site in util.go that makes it.                     *)
(***************************************************************************)
EXTENDS Integers, Sequences, FiniteSets, TLC

VARIABLES
    active,       \* the SetupLibp2p calls that are made in this run
    secret,       \* secret pnet.PSK                     (per call)
    hostKey,      \* hostKey crypto.PrivKey              (per call)
    listenAddrs,  \* listenAddrs []multiaddr.Multiaddr   (per call)
    ds,           \* ds datastore.Batching               (per call)
    dhtMode,      \* dhtMode dht.ModeOpt                 (per call)
    opts,         \* opts ...libp2p.Option               (per call)
    ctxDone,      \* ctx has been cancelled              (per call)
    pc,           \* position of each call
    transports,   \* local variable transports           (per call)
    finalOpts,    \* local variable finalOpts            (per call)
    ddht,         \* the cells "var ddht *dualdht.DHT"   (per cell)
    err,          \* the cells "var err error"           (per cell)
    cfg,          \* the library Config libp2p.New builds from finalOpts
    newRet,       \* what libp2p.New returns: [h, err]
    ret,          \* what SetupLibp2p returns: [h, ddht, err]
    cbCount,      \* invocations of the routing-provider callback
    ctxAtDone,    \* whether ctx was already cancelled when the call returned
    open,         \* resources currently held: hosts, listeners, routing tables
    nextStore,    \* in-memory datastores created so far
    psPc,         \* position of the auto-relay peer source
    num,          \* its argument num
    bootstrap,    \* dht.DefaultBootstrapPeers, as (peer id, address) pairs
    ipfspeers,    \* its local ipfspeers
    psI,          \* its loop counter i
    peerChan,     \* buffer of its channel
    chanCap,      \* capacity of its channel
    chanClosed,   \* its channel is closed
    psBlocked,    \* a send found the buffer full
    psRet         \* it has returned peerChan

vars == <<active, secret, hostKey, listenAddrs, ds, dhtMode, opts, ctxDone, pc,
          transports, finalOpts, ddht, err, cfg, newRet, ret, cbCount, ctxAtDone,
          open, nextStore, psPc, num, bootstrap, ipfspeers, psI, peerChan,
          chanCap, chanClosed, psBlocked, psRet>>

hostVars == <<active, secret, hostKey, listenAddrs, ds, dhtMode, opts, ctxDone, pc,
              transports, finalOpts, ddht, err, cfg, newRet, ret, cbCount,
              ctxAtDone, open, nextStore>>

psVars == <<psPc, num, bootstrap, ipfspeers, psI, peerChan, chanCap, chanClosed,
            psBlocked, psRet>>

-----------------------------------------------------------------------------
(* Bounds *)

\* longest list of caller-supplied extra options enumerated
MaxExtras == 2
\* largest num handed to the peer source
MaxNum == 3
\* longest dht.DefaultBootstrapPeers list enumerated
MaxBootstrap == 3

Calls == {1, 2}

\* "The secret should be a 32-byte pre-shared-key byte slice."
PSKLen == 32

Min(a, b) == IF a < b THEN a ELSE b

SeqsUpTo(S, n) == UNION {[1..k -> S] : k \in 0..n}

Range(s) == {s[i] : i \in 1..Len(s)}

-----------------------------------------------------------------------------
(* Values *)

\* a pnet.PSK is a byte slice: nil, or non-nil with a length (possibly 0)
NilPSK == [isNil |-> TRUE, len |-> 0, id |-> "nil"]
PSK(id, n) == [isNil |-> FALSE, len |-> n, id |-> id]

\* a datastore.Batching handle: nil, a caller-supplied store, or an in-memory
\* store the DHT library creates by default
NilStore == [kind |-> "nil", n |-> 0]
CallerStore(n) == [kind |-> "ds", n |-> n]
MemStore(n) == [kind |-> "mem", n |-> n]

\* host instances: the basic host the library constructs, and the routed host
\* wrapping it that libp2p.New returns when a Routing option is set
NilHost == [kind |-> "nil", call |-> 0, key |-> ""]
BasicHost(c, key) == [kind |-> "basic", call |-> c, key |-> key]
RoutedHost(c, key) == [kind |-> "routed", call |-> c, key |-> key]
BaseOf(h) == IF h.kind = "routed" THEN BasicHost(h.call, h.key) ELSE h

NilDHT == [isNil |-> TRUE, call |-> 0, wanHost |-> NilHost, lanHost |-> NilHost,
           wanStore |-> NilStore, lanStore |-> NilStore, mode |-> "",
           validators |-> {}, concurrency |-> 0]

-----------------------------------------------------------------------------
(* libp2p options.  An Option is modelled as the sequence of primitive      *)
(* settings it applies to the library Config; libp2p.ChainOptions is their  *)
(* concatenation.                                                           *)

NoYamux == [MaxStreamWindowSize |-> 0, AcceptBacklog |-> 0,
            EnableKeepAlive |-> FALSE, KeepAliveInterval |-> 0,
            MaxMessageSize |-> 0, LogOutput |-> ""]

Prim(kind, name) == [kind |-> kind, name |-> name, psk |-> NilPSK,
                     addrs |-> <<>>, yamux |-> NoYamux]

Identity(k) == <<Prim("Identity", k)>>
ListenAddrs(as) == <<[Prim("ListenAddrs", "") EXCEPT !.addrs = as]>>
NoListenAddrs == <<Prim("NoListenAddrs", "")>>
PrivateNetwork(psk) == <<[Prim("PrivateNetwork", "") EXCEPT !.psk = psk]>>
Transport(t) == <<Prim("Transport", t)>>
NoTransports == <<Prim("NoTransports", "")>>
Routing(owner) == <<Prim("Routing", owner)>>
Muxer(id, conf) == <<[Prim("Muxer", id) EXCEPT !.yamux = conf]>>
NATPortMap == <<Prim("NATPortMap", "")>>
ConnectionManager(m) == <<Prim("ConnectionManager", m)>>
EnableAutoRelayWithPeerSource == <<Prim("EnableAutoRelay", "peerSource")>>
EnableNATService == <<Prim("EnableNATService", "")>>

RECURSIVE ChainOptions(_)
ChainOptions(os) ==
    IF os = <<>> THEN <<>> ELSE Head(os) \o ChainOptions(Tail(os))

\* libp2p.DefaultTransports: the library's full default transport set
DefaultTransports ==
    ChainOptions(<<Transport("tcp"), Transport("quic"), Transport("websocket"),
                   Transport("webtransport")>>)

\* transports whose constructors accept a private-network PSK
PnetCapable == {"tcp", "websocket"}

\* var connMgr, _ = connmgr.NewConnManager(100, 600, WithGracePeriod(time.Minute))
connMgr == "connMgr"

Libp2pOptionsExtra ==
    <<NATPortMap, ConnectionManager(connMgr), EnableAutoRelayWithPeerSource,
      EnableNATService>>

\* yamuxv5.DefaultConfig()
YamuxDefaultConfig ==
    [MaxStreamWindowSize |-> 16 * 1024 * 1024, AcceptBacklog |-> 256,
     EnableKeepAlive |-> TRUE, KeepAliveInterval |-> 30,
     MaxMessageSize |-> 64 * 1024, LogOutput |-> "stderr"]

\* the yamuxConfig SetupLibp2p builds (seconds for the keep-alive interval)
YamuxProfile ==
    [YamuxDefaultConfig EXCEPT
        !.MaxStreamWindowSize = 1024 * 1024 * 4,
        !.AcceptBacklog = 128,
        !.EnableKeepAlive = TRUE,
        !.KeepAliveInterval = 15,
        !.MaxMessageSize = 16 * 1024 * 1024,
        !.LogOutput = "discard"]

YamuxID == "/yamux/1.0.0"

-----------------------------------------------------------------------------
(* The library Config and the application of options to it (libp2p.New)     *)

EmptyConfig ==
    [PeerKey |-> "", ListenAddrs |-> <<>>, ListenNil |-> TRUE, PSK |-> NilPSK,
     Transports |-> <<>>, Muxers |-> <<>>, Routing |-> "", ConnManager |-> "",
     Flags |-> {}, err |-> ""]

ApplyPrim(c, p) ==
    CASE p.kind = "Identity" ->
           IF c.PeerKey # "" THEN [c EXCEPT !.err = "cannot specify multiple identities"]
           ELSE [c EXCEPT !.PeerKey = p.name]
      [] p.kind = "ListenAddrs" ->
           [c EXCEPT !.ListenAddrs = @ \o p.addrs,
                     !.ListenNil = @ /\ p.addrs = <<>>]
      [] p.kind = "NoListenAddrs" ->
           [c EXCEPT !.ListenAddrs = <<>>, !.ListenNil = FALSE]
      [] p.kind = "PrivateNetwork" ->
           IF ~c.PSK.isNil
           THEN [c EXCEPT !.err = "cannot specify multiple private network options"]
           ELSE [c EXCEPT !.PSK = p.psk]
      [] p.kind = "Transport" -> [c EXCEPT !.Transports = Append(@, p.name)]
      [] p.kind = "NoTransports" -> [c EXCEPT !.Transports = <<>>]
      [] p.kind = "Routing" ->
           IF c.Routing # "" THEN [c EXCEPT !.err = "cannot specify multiple routing options"]
           ELSE [c EXCEPT !.Routing = p.name]
      [] p.kind = "Muxer" ->
           [c EXCEPT !.Muxers = Append(@, [id |-> p.name, conf |-> p.yamux])]
      [] p.kind = "ConnectionManager" ->
           IF c.ConnManager # ""
           THEN [c EXCEPT !.err = "cannot specify multiple connection managers"]
           ELSE [c EXCEPT !.ConnManager = p.name]
      [] OTHER -> [c EXCEPT !.Flags = @ \cup {p.kind}]

\* options are applied in order; the first error stops the application
RECURSIVE ApplyAll(_, _)
ApplyAll(c, ps) ==
    IF ps = <<>> \/ c.err # "" THEN c
    ELSE ApplyAll(ApplyPrim(c, Head(ps)), Tail(ps))

\* libp2p.DefaultListenAddrs, used when no listen address was configured
DefaultListenAddrs == <<"default4", "default6">>

\* libp2p.New(opts...): the options, then the library's fallback defaults for
\* what is still unset (transports, muxers and identity are always set here)
FallbackDefaults(c) ==
    IF c.err = "" /\ c.ListenNil
    THEN [c EXCEPT !.ListenAddrs = DefaultListenAddrs, !.ListenNil = FALSE]
    ELSE c

NewConfig(os) == FallbackDefaults(ApplyAll(EmptyConfig, ChainOptions(os)))

\* the library builds each configured transport; QUIC and WebTransport refuse
\* a non-empty PSK
TransportsBuildErr(c) ==
    IF c.PSK.len > 0 /\ \E i \in 1..Len(c.Transports) : c.Transports[i] \notin PnetCapable
    THEN "transport doesn't support private networks yet"
    ELSE ""


-----------------------------------------------------------------------------
(* newDHT and the dual routing table                                        *)

DhtConcurrency == 10

DhtOpt(kind, arg) == [kind |-> kind, arg |-> arg, store |-> NilStore, n |-> 0]

\* variant: the Datastore option is never appended
DhtOptsWithoutStore(h, store, mode) ==
    <<DhtOpt("NamespacedValidator", "pk"),
      [DhtOpt("NamespacedValidator", "ipns") EXCEPT !.n = h.call],
      [DhtOpt("Concurrency", "") EXCEPT !.n = DhtConcurrency],
      DhtOpt("Mode", mode)>>

\* the dhtOpts list newDHT builds; each is wrapped in dualdht.DHTOption, which
\* hands it to both the WAN and the LAN instance
DhtOpts(h, store, mode) ==
    <<DhtOpt("NamespacedValidator", "pk"),
      [DhtOpt("NamespacedValidator", "ipns") EXCEPT !.n = h.call],
      [DhtOpt("Concurrency", "") EXCEPT !.n = DhtConcurrency],
      DhtOpt("Mode", mode)>>
    \o (IF store # NilStore
        THEN <<[DhtOpt("Datastore", "") EXCEPT !.store = store]>>
        ELSE <<>>)

\* the store one DHT instance ends up with: the last Datastore option, or the
\* in-memory store the library creates for that instance
StoreOf(dopts, fresh) ==
    LET idx == {i \in 1..Len(dopts) : dopts[i].kind = "Datastore"}
    IN IF idx = {} THEN MemStore(fresh)
       ELSE dopts[CHOOSE i \in idx : \A j \in idx : j <= i].store

OptArg(dopts, kind) ==
    LET idx == {i \in 1..Len(dopts) : dopts[i].kind = kind}
    IN dopts[CHOOSE i \in idx : \A j \in idx : j <= i]

\* dualdht.New(ctx, h, dhtOpts...): a WAN and a LAN instance on the same host
DualNew(h, dopts, fresh) ==
    [isNil |-> FALSE, call |-> h.call, wanHost |-> h, lanHost |-> h,
     wanStore |-> StoreOf(dopts, fresh), lanStore |-> StoreOf(dopts, fresh + 1),
     mode |-> OptArg(dopts, "Mode").arg,
     validators |-> {dopts[i].arg : i \in {j \in 1..Len(dopts) :
                                            dopts[j].kind = "NamespacedValidator"}},
     concurrency |-> OptArg(dopts, "Concurrency").n]

newDHT(h, store, mode, fresh) == DualNew(h, DhtOpts(h, store, mode), fresh)

\* in-memory stores a routing table pair created
MemStoresOf(d) == {s \in {d.wanStore, d.lanStore} : s.kind = "mem"}

-----------------------------------------------------------------------------
(* SetupLibp2p                                                              *)

\* variant: ddht and err are package-level variables
PackageLevelCell(c) == 1

\* "var ddht" and "var err" are locals of the call, captured by its callback
Cell(c) == c

CallbackName(c) == IF c = 1 THEN "cb1" ELSE "cb2"

\* variant: the secret is not consulted
SelectTransportsIgnoringSecret(sec) == DefaultTransports

SelectTransports(sec) ==
    IF ~sec.isNil
    THEN ChainOptions(<<NoTransports, Transport("tcp"), Transport("websocket")>>)
    ELSE DefaultTransports

MandatoryOpts(key, addrs, sec, tr, cb) ==
    <<Identity(key), ListenAddrs(addrs), PrivateNetwork(sec), tr, Routing(cb)>>

\* variant: the library's default yamux configuration, untuned
YamuxOptionUntuned == Muxer(YamuxID, YamuxDefaultConfig)

YamuxOption == Muxer(YamuxID, YamuxProfile)

BuildFinalOpts(key, addrs, sec, tr, cb, extra) ==
    Append(MandatoryOpts(key, addrs, sec, tr, cb) \o extra, YamuxOption)

Res(kind, c, addr) == [kind |-> kind, call |-> c, addr |-> addr]

NoRet == [h |-> NilHost, ddht |-> NilDHT, err |-> "", set |-> FALSE]
NoNewRet == [h |-> NilHost, err |-> ""]

\* lines 85-119: the locals, the transport choice and the option list
SetupOptions(c) ==
    /\ c \in active /\ pc[c] = "start"
    /\ transports' = [transports EXCEPT ![c] = SelectTransports(secret[c])]
    /\ finalOpts' = [finalOpts EXCEPT ![c] =
            BuildFinalOpts(hostKey[c], listenAddrs[c], secret[c],
                           SelectTransports(secret[c]), CallbackName(c), opts[c])]
    /\ ddht' = [ddht EXCEPT ![Cell(c)] = NilDHT]
    /\ err' = [err EXCEPT ![Cell(c)] = ""]
    /\ pc' = [pc EXCEPT ![c] = "new"]
    /\ UNCHANGED <<active, secret, hostKey, listenAddrs, ds, dhtMode, opts, ctxDone,
                   cfg, newRet, ret, cbCount, ctxAtDone, open, nextStore>>
    /\ UNCHANGED psVars

\* line 120, libp2p.New: the options are applied to the library Config
NewApply(c) ==
    /\ c \in active /\ pc[c] = "new"
    /\ LET k == NewConfig(finalOpts[c]) IN
          /\ cfg' = [cfg EXCEPT ![c] = k]
          /\ IF k.err # ""
             THEN /\ newRet' = [newRet EXCEPT ![c] = [h |-> NilHost, err |-> k.err]]
                  /\ pc' = [pc EXCEPT ![c] = "return"]
             ELSE /\ UNCHANGED newRet
                  /\ pc' = [pc EXCEPT ![c] = "build"]
    /\ UNCHANGED <<active, secret, hostKey, listenAddrs, ds, dhtMode, opts, ctxDone,
                   transports, finalOpts, ddht, err, ret, cbCount, ctxAtDone, open,
                   nextStore>>
    /\ UNCHANGED psVars

\* line 120, libp2p.New: the basic host and its transports are constructed
NewBuild(c) ==
    /\ c \in active /\ pc[c] = "build"
    /\ IF TransportsBuildErr(cfg[c]) # ""
       THEN /\ newRet' = [newRet EXCEPT ![c] =
                            [h |-> NilHost, err |-> TransportsBuildErr(cfg[c])]]
            /\ pc' = [pc EXCEPT ![c] = "return"]
            /\ UNCHANGED open
       ELSE /\ open' = open \cup {Res("host", c, "")}
            /\ pc' = [pc EXCEPT ![c] = "routing"]
            /\ UNCHANGED newRet
    /\ UNCHANGED <<active, secret, hostKey, listenAddrs, ds, dhtMode, opts, ctxDone,
                   transports, finalOpts, ddht, err, cfg, ret, cbCount, ctxAtDone,
                   nextStore>>
    /\ UNCHANGED psVars

\* lines 102-105: the library invokes the routing constructor with the basic
\* host it built; the callback fills the call's cells from newDHT.
\* dualdht.New either fails (fail) or returns the pair.
RoutingCallback(c) ==
    /\ c \in active /\ pc[c] = "routing"
    /\ cbCount' = [cbCount EXCEPT ![c] = @ + 1]
    /\ \E fail \in BOOLEAN :
          IF fail
          THEN /\ ddht' = [ddht EXCEPT ![Cell(c)] = NilDHT]
               /\ err' = [err EXCEPT ![Cell(c)] = "dht construction failed"]
               /\ newRet' = [newRet EXCEPT ![c] =
                               [h |-> NilHost, err |-> "dht construction failed"]]
               /\ open' = open \ {Res("host", c, "")}
               /\ pc' = [pc EXCEPT ![c] = "return"]
               /\ UNCHANGED nextStore
          ELSE LET d == newDHT(BasicHost(c, cfg[c].PeerKey), ds[c], dhtMode[c],
                               nextStore + 1) IN
               /\ ddht' = [ddht EXCEPT ![Cell(c)] = d]
               /\ err' = [err EXCEPT ![Cell(c)] = ""]
               /\ open' = open \cup {Res("dht", c, "")}
               /\ nextStore' = nextStore + Cardinality(MemStoresOf(d))
               /\ pc' = [pc EXCEPT ![c] = "listen"]
               /\ UNCHANGED newRet
    /\ UNCHANGED <<active, secret, hostKey, listenAddrs, ds, dhtMode, opts, ctxDone,
                   transports, finalOpts, cfg, ret, ctxAtDone>>
    /\ UNCHANGED psVars

BoundAddrs == {r.addr : r \in {x \in open : x.kind = "listener"}}

\* line 120, libp2p.New: the host starts listening on the configured
\* addresses; an address binds or not (bound), and the start fails when there
\* are addresses and none binds.  On failure the library closes its host.
NewListen(c) ==
    /\ c \in active /\ pc[c] = "listen"
    /\ LET addrs == Range(cfg[c].ListenAddrs) IN
       \E bound \in SUBSET (addrs \ BoundAddrs) :
          IF addrs # {} /\ bound = {}
          THEN /\ newRet' = [newRet EXCEPT ![c] =
                               [h |-> NilHost, err |-> "failed to listen on any addresses"]]
               /\ open' = open \ {Res("host", c, "")}
          ELSE /\ newRet' = [newRet EXCEPT ![c] =
                               [h |-> RoutedHost(c, cfg[c].PeerKey), err |-> ""]]
               /\ open' = open \cup {Res("listener", c, a) : a \in bound}
    /\ pc' = [pc EXCEPT ![c] = "return"]
    /\ UNCHANGED <<active, secret, hostKey, listenAddrs, ds, dhtMode, opts, ctxDone,
                   transports, finalOpts, ddht, err, cfg, ret, cbCount, ctxAtDone,
                   nextStore>>
    /\ UNCHANGED psVars

\* variant: the ddht cell is not handed back
ReturnValueDroppingDHT(h, e, d) ==
    IF e # ""
    THEN [h |-> NilHost, ddht |-> NilDHT, err |-> e, set |-> TRUE]
    ELSE [h |-> h, ddht |-> NilDHT, err |-> "", set |-> TRUE]

\* what lines 123-127 return, given libp2p.New's result and the ddht cell
ReturnValue(h, e, d) ==
    IF e # ""
    THEN [h |-> NilHost, ddht |-> NilDHT, err |-> e, set |-> TRUE]
    ELSE [h |-> h, ddht |-> d, err |-> "", set |-> TRUE]

\* lines 120-127: "h, err := libp2p.New(...)" and the two returns
Return(c) ==
    /\ c \in active /\ pc[c] = "return"
    /\ err' = [err EXCEPT ![Cell(c)] = newRet[c].err]
    /\ ret' = [ret EXCEPT ![c] = ReturnValue(newRet[c].h, newRet[c].err, ddht[Cell(c)])]
    /\ ctxAtDone' = [ctxAtDone EXCEPT ![c] = ctxDone[c]]
    /\ pc' = [pc EXCEPT ![c] = "done"]
    /\ UNCHANGED <<active, secret, hostKey, listenAddrs, ds, dhtMode, opts, ctxDone,
                   transports, finalOpts, ddht, cfg, newRet, cbCount, open, nextStore>>
    /\ UNCHANGED psVars

\* the caller cancels ctx, before the call or while it is running
Cancel(c) ==
    /\ c \in active /\ pc[c] # "done" /\ ~ctxDone[c]
    /\ ctxDone' = [ctxDone EXCEPT ![c] = TRUE]
    /\ UNCHANGED <<active, secret, hostKey, listenAddrs, ds, dhtMode, opts, pc,
                   transports, finalOpts, ddht, err, cfg, newRet, ret, cbCount,
                   ctxAtDone, open, nextStore>>
    /\ UNCHANGED psVars

-----------------------------------------------------------------------------
(* Inputs                                                                   *)

Secrets == {NilPSK, PSK("s1", 0), PSK("s1", PSKLen - 1), PSK("s1", PSKLen)}

ExtraChoices ==
    {Transport("quic"), NoTransports, Identity("k2"), ListenAddrs(<<"a3">>),
     NoListenAddrs, PrivateNetwork(PSK("s2", PSKLen)), Muxer("/mplex/6.7.0", NoYamux),
     Routing("other")}

Extras == SeqsUpTo(ExtraChoices, MaxExtras) \cup {Libp2pOptionsExtra}

PeerSourceIdle ==
    /\ psPc = "idle" /\ num = 0 /\ bootstrap = <<>> /\ ipfspeers = <<>> /\ psI = 0
    /\ peerChan = <<>> /\ chanCap = 0 /\ chanClosed = FALSE /\ psBlocked = FALSE
    /\ psRet = FALSE

HostLocalsInit ==
    /\ ctxDone = [c \in Calls |-> FALSE]
    /\ pc = [c \in Calls |-> IF c \in active THEN "start" ELSE "idle"]
    /\ transports = [c \in Calls |-> <<>>]
    /\ finalOpts = [c \in Calls |-> <<>>]
    /\ ddht = [c \in Calls |-> NilDHT]
    /\ err = [c \in Calls |-> ""]
    /\ cfg = [c \in Calls |-> EmptyConfig]
    /\ newRet = [c \in Calls |-> NoNewRet]
    /\ ret = [c \in Calls |-> NoRet]
    /\ cbCount = [c \in Calls |-> 0]
    /\ ctxAtDone = [c \in Calls |-> FALSE]
    /\ open = {}
    /\ nextStore = 0

\* one call of SetupLibp2p with any arguments
Init ==
    /\ active = {1}
    /\ \E s \in Secrets, la \in {<<>>, <<"a1">>}, d \in {NilStore, CallerStore(1)},
          m \in {"auto", "server"}, e \in Extras :
          /\ secret = [c \in Calls |-> IF c = 1 THEN s ELSE NilPSK]
          /\ listenAddrs = [c \in Calls |-> IF c = 1 THEN la ELSE <<>>]
          /\ ds = [c \in Calls |-> IF c = 1 THEN d ELSE NilStore]
          /\ dhtMode = [c \in Calls |-> IF c = 1 THEN m ELSE "auto"]
          /\ opts = [c \in Calls |-> IF c = 1 THEN e ELSE <<>>]
    /\ hostKey = [c \in Calls |-> IF c = 1 THEN "k1" ELSE "k9"]
    /\ HostLocalsInit
    /\ PeerSourceIdle

Next ==
    \E c \in Calls :
        \/ SetupOptions(c)
        \/ NewApply(c)
        \/ NewBuild(c)
        \/ RoutingCallback(c)
        \/ NewListen(c)
        \/ Return(c)
        \/ Cancel(c)

Spec == Init /\ [][Next]_vars

-----------------------------------------------------------------------------
(* Observations used by the properties                                      *)

Done(c) == c \in active /\ pc[c] = "done"
Succeeded(c) == Done(c) /\ ret[c].err = ""
Held(c) == {r \in open : r.call = c}

Flat(os) == ChainOptions(os)
MuxerCount(ps) == Cardinality({i \in 1..Len(ps) : ps[i].kind = "Muxer"})

\* a Config that already holds a transport without private-network support
QuicConfig == [EmptyConfig EXCEPT !.Transports = <<"quic">>]

-----------------------------------------------------------------------------
(* Properties of one SetupLibp2p call (specification Spec)                  *)

\* C1: once the transport choice is made, a non-nil secret selects exactly
\* TCP and WebSocket, whatever transports were configured before it, and a nil
\* secret selects the full default transport set.
C1_TransportSelection ==
    \A c \in active : pc[c] \notin {"idle", "start"} =>
        /\ finalOpts[c][4] = transports[c]
        /\ IF ~secret[c].isNil
           THEN /\ ApplyAll(QuicConfig, transports[c]).Transports = <<"tcp", "websocket">>
                /\ Range(ApplyAll(QuicConfig, transports[c]).Transports) = PnetCapable
           ELSE ApplyAll(EmptyConfig, transports[c]).Transports
                  = <<"tcp", "quic", "websocket", "webtransport">>

C1_Witness ==
    \E c \in active : Succeeded(c) /\ ~secret[c].isNil /\ opts[c] = <<>>
                      /\ cfg[c].Transports = <<"tcp", "websocket">>

\* C2 (as claimed): with a non-nil secret and any extra options, a returned
\* host has only private-network-capable transports, and identity, listen
\* addresses and secret in effect are the mandatory ones.
C2_MandatoryNotOverridden ==
    \A c \in active : (Succeeded(c) /\ ~secret[c].isNil) =>
        /\ Range(cfg[c].Transports) \subseteq PnetCapable
        /\ cfg[c].PeerKey = hostKey[c]
        /\ cfg[c].PSK = secret[c]
        /\ cfg[c].ListenAddrs =
             NewConfig(BuildFinalOpts(hostKey[c], listenAddrs[c], secret[c],
                                      transports[c], CallbackName(c), <<>>)).ListenAddrs

\* C3 (as claimed): a non-nil secret whose length is not 32 makes the call
\* fail, return no host and leave no listener open.
C3_BadSecretLengthFails ==
    \A c \in active : (Done(c) /\ ~secret[c].isNil /\ secret[c].len # PSKLen) =>
        /\ ret[c].err # ""
        /\ ret[c].h = NilHost
        /\ {r \in Held(c) : r.kind = "listener"} = {}

\* C4 (as claimed): a call returns host, routing table pair and nil error, or
\* (nil, nil, error) holding no resource.
C4_AllOrNothing ==
    \A c \in active : Done(c) =>
        \/ ret[c].err = "" /\ ret[c].h # NilHost /\ ~ret[c].ddht.isNil
        \/ ret[c].err # "" /\ ret[c].h = NilHost /\ ret[c].ddht.isNil /\ Held(c) = {}

\* C5 (as claimed): on success the callback ran exactly once, the returned
\* pair is the one it built, and both instances are bound to the host
\* instance that is returned.
C5_BoundToReturnedHost ==
    \A c \in active : Succeeded(c) =>
        /\ cbCount[c] = 1
        /\ ~ret[c].ddht.isNil
        /\ ret[c].ddht.call = c
        /\ ret[c].ddht.wanHost = ret[c].h
        /\ ret[c].ddht.lanHost = ret[c].h

\* C5 (amended): on success the callback ran exactly once, the returned pair
\* is the one it built, and both instances are bound to one host instance:
\* the host the library handed to the callback, which the returned host wraps
\* and which carries the caller's identity key.
C5_BoundToWrappedHost ==
    \A c \in active : Succeeded(c) =>
        /\ cbCount[c] = 1
        /\ ~ret[c].ddht.isNil
        /\ ret[c].ddht.call = c
        /\ ret[c].ddht.wanHost = ret[c].ddht.lanHost
        /\ ret[c].ddht.wanHost = BaseOf(ret[c].h)
        /\ ret[c].h.key = hostKey[c]
        /\ ret[c].h.call = c

C5_Witness ==
    \E c \in active : Succeeded(c) /\ cbCount[c] = 1 /\ ret[c].h.kind = "routed"
                      /\ ret[c].ddht.wanHost.kind = "basic"

C8_CancelAborts ==
    \A c \in active : (Done(c) /\ ctxAtDone[c]) =>
        /\ ret[c].err # ""
        /\ {r \in Held(c) : r.kind \in {"listener", "host"}} = {}

-----------------------------------------------------------------------------
(* Two concurrent SetupLibp2p calls (specification SpecConc)                *)

\* two calls for independent hosts: own identity, own record store if any,
\* no extras or the package's Libp2pOptionsExtra
InitConc ==
    /\ active = Calls
    /\ secret \in [Calls -> {NilPSK, PSK("s1", PSKLen)}]
    /\ listenAddrs \in [Calls -> {<<"a1">>, <<"a2">>}]
    /\ \E n \in SUBSET Calls :
          ds = [c \in Calls |-> IF c \in n THEN NilStore ELSE CallerStore(c)]
    /\ dhtMode = [c \in Calls |-> "auto"]
    /\ opts \in [Calls -> {<<>>, Libp2pOptionsExtra}]
    /\ hostKey = [c \in Calls |-> IF c = 1 THEN "k1" ELSE "k2"]
    /\ HostLocalsInit
    /\ PeerSourceIdle

SpecConc == InitConc /\ [][Next]_vars

Obj(kind, n, name) == [kind |-> kind, n |-> n, name |-> name]

\* the mutable objects reachable from the host and routing table pair that a
\* successful call returned
Reachable(c) ==
    {Obj("host", ret[c].h.call, ret[c].h.kind), Obj("host", BaseOf(ret[c].h).call, "basic")}
    \cup {Obj("dht", ret[c].ddht.call, "")}
    \cup {Obj("host", ret[c].ddht.wanHost.call, ret[c].ddht.wanHost.kind),
          Obj("host", ret[c].ddht.lanHost.call, ret[c].ddht.lanHost.kind)}
    \cup {Obj(s.kind, s.n, "") : s \in {ret[c].ddht.wanStore, ret[c].ddht.lanStore}}
    \cup {Obj("listener", 0, r.addr) : r \in {x \in Held(c) : x.kind = "listener"}}
    \cup (IF cfg[c].ConnManager = "" THEN {} ELSE {Obj("connmgr", 0, cfg[c].ConnManager)})

Shared == Reachable(1) \cap Reachable(2)

\* C7: a supplied record store is the store of both instances of the pair;
\* with a nil record store each instance has an in-memory store of its own,
\* and two hosts assembled with a nil record store have no store in common.
C7_RecordStoreBinding ==
    /\ \A c \in active : (pc[c] \in {"listen", "return", "done"} /\ ~ddht[Cell(c)].isNil) =>
          LET d == ddht[Cell(c)] IN
          IF ds[c] # NilStore
          THEN d.wanStore = ds[c] /\ d.lanStore = ds[c]
          ELSE /\ d.wanStore.kind = "mem" /\ d.lanStore.kind = "mem"
               /\ d.wanStore # d.lanStore
    /\ (Succeeded(1) /\ Succeeded(2) /\ ds[1] = NilStore /\ ds[2] = NilStore) =>
          {ret[1].ddht.wanStore, ret[1].ddht.lanStore}
             \cap {ret[2].ddht.wanStore, ret[2].ddht.lanStore} = {}

C7_Witness ==
    /\ Succeeded(1) /\ Succeeded(2) /\ ds[1] = NilStore /\ ds[2] = NilStore
    /\ ret[1].ddht.wanStore.kind = "mem" /\ ret[2].ddht.lanStore.kind = "mem"

\* C9 (as claimed): the cells of a call hold only what its own callback
\* wrote, each of two concurrent calls returns its own host with its own
\* routing table, and no mutable object is reachable from both
\* returned hosts, also when both are given Libp2pOptionsExtra.
C9_NoSharedState ==
    /\ \A c \in active : ~ddht[c].isNil => ddht[c].call = c
    /\ \A c \in active : Succeeded(c) => ret[c].h.call = c /\ ret[c].ddht.call = c
    /\ (Succeeded(1) /\ Succeeded(2)) => Shared = {}

\* C9 (amended): the cells of a call hold only what its own callback wrote,
\* each of two concurrent calls returns its own host with its own routing
\* table, and the only mutable object reachable from both
\* returned hosts is the package-level connection manager, shared exactly
\* when both calls are given Libp2pOptionsExtra.
C9_OnlyConnMgrShared ==
    /\ \A c \in active : ~ddht[c].isNil => ddht[c].call = c
    /\ \A c \in active : Succeeded(c) => ret[c].h.call = c /\ ret[c].ddht.call = c
    /\ (Succeeded(1) /\ Succeeded(2)) =>
          /\ Shared \subseteq {Obj("connmgr", 0, "connMgr")}
          /\ Shared # {} <=> (opts[1] = Libp2pOptionsExtra /\ opts[2] = Libp2pOptionsExtra)

C9_Witness ==
    /\ Succeeded(1) /\ Succeeded(2)
    /\ opts[1] = Libp2pOptionsExtra /\ opts[2] = Libp2pOptionsExtra
    /\ Shared = {Obj("connmgr", 0, "connMgr")}

-----------------------------------------------------------------------------
(* DefaultBootstrapPeers and the auto-relay peer source of                  *)
(* Libp2pOptionsExtra (specification SpecPeer)                              *)

\* a multiaddr of dht.DefaultBootstrapPeers: its transport part and the peer
\* id of its /p2p part ("" when it has none)
Maddr(id, addr) == [id |-> id, addr |-> addr]

AddrInfo(id, addrs) == [ID |-> id, Addrs |-> addrs]

RECURSIVE AddrsOf(_, _)
AddrsOf(ms, id) ==
    IF ms = <<>> THEN <<>>
    ELSE (IF Head(ms).id = id THEN <<Head(ms).addr>> ELSE <<>>) \o AddrsOf(Tail(ms), id)

\* peer.AddrInfosFromP2pAddrs: nil and an error when an address has no peer
\* id; otherwise one AddrInfo per peer id with that peer's addresses, in the
\* order a map iteration yields them (any order)
AddrInfosFromP2pAddrs(ms) ==
    LET ids == {ms[i].id : i \in 1..Len(ms)} IN
    IF "" \in ids THEN {<<>>}
    ELSE {s \in [1..Cardinality(ids) -> {AddrInfo(id, AddrsOf(ms, id)) : id \in ids}] :
            \A i, j \in 1..Cardinality(ids) : i # j => s[i] # s[j]}

\* DefaultBootstrapPeers(): the error is dropped
DefaultBootstrapPeers(ms) == AddrInfosFromP2pAddrs(ms)

\* variant: an unbuffered channel
ChanCapacityUnbuffered(n) == 0

\* make(chan peer.AddrInfo, num)
ChanCapacity(n) == n

\* the loop condition of line 53
LoopCond(i, n, peers) == i < n /\ i < Len(peers)

\* lines 50 and 52: the channel is made and the peers are fetched
PsStart ==
    /\ psPc = "start"
    /\ chanCap' = ChanCapacity(num)
    /\ peerChan' = <<>>
    /\ \E ps \in DefaultBootstrapPeers(bootstrap) : ipfspeers' = ps
    /\ psI' = 0
    /\ psPc' = "loop"
    /\ UNCHANGED <<num, bootstrap, chanClosed, psBlocked, psRet>>
    /\ UNCHANGED hostVars

\* lines 53-55: one iteration; nothing receives while the function runs, so a
\* send on a full buffer blocks for good
PsSend ==
    /\ psPc = "loop" /\ LoopCond(psI, num, ipfspeers)
    /\ IF Len(peerChan) < chanCap
       THEN /\ peerChan' = Append(peerChan, ipfspeers[psI + 1])
            /\ psI' = psI + 1
            /\ UNCHANGED <<psPc, psBlocked>>
       ELSE /\ psBlocked' = TRUE
            /\ psPc' = "blocked"
            /\ UNCHANGED <<peerChan, psI>>
    /\ UNCHANGED <<num, bootstrap, ipfspeers, chanCap, chanClosed, psRet>>
    /\ UNCHANGED hostVars

\* lines 56 and 51: the loop is over, peerChan is returned and the deferred
\* close runs before the caller has it
PsReturn ==
    /\ psPc = "loop" /\ ~LoopCond(psI, num, ipfspeers)
    /\ chanClosed' = TRUE
    /\ psRet' = TRUE
    /\ psPc' = "done"
    /\ UNCHANGED <<num, bootstrap, ipfspeers, psI, peerChan, chanCap, psBlocked>>
    /\ UNCHANGED hostVars

PeerIds == {"", "QmA", "QmB", "QmC"}

InitPeer ==
    /\ active = {}
    /\ secret = [c \in Calls |-> NilPSK]
    /\ listenAddrs = [c \in Calls |-> <<>>]
    /\ ds = [c \in Calls |-> NilStore]
    /\ dhtMode = [c \in Calls |-> "auto"]
    /\ opts = [c \in Calls |-> <<>>]
    /\ hostKey = [c \in Calls |-> ""]
    /\ HostLocalsInit
    /\ psPc = "start"
    /\ num \in 0..MaxNum
    /\ bootstrap \in SeqsUpTo({Maddr(id, a) : id \in PeerIds, a \in {"dns", "ip4"}},
                              MaxBootstrap)
    /\ ipfspeers = <<>> /\ psI = 0 /\ peerChan = <<>> /\ chanCap = 0
    /\ chanClosed = FALSE /\ psBlocked = FALSE /\ psRet = FALSE

NextPeer == PsStart \/ PsSend \/ PsReturn

SpecPeer == InitPeer /\ [][NextPeer]_vars

\* C10: the peer source never blocks on a send and never holds more than num
\* peers; when it returns, the channel is closed and holds the first
\* min(num, number of bootstrap peers) peers of the list it fetched, in that
\* list's order, each peer id once.
C10_PeerSource ==
    /\ ~psBlocked
    /\ psPc # "start" => chanCap = num
    /\ Len(peerChan) <= num
    /\ psRet =>
         /\ chanClosed
         /\ Len(peerChan) = Min(num, Len(ipfspeers))
         /\ peerChan = SubSeq(ipfspeers, 1, Min(num, Len(ipfspeers)))
         /\ \A i, j \in 1..Len(peerChan) : i # j => peerChan[i].ID # peerChan[j].ID
         /\ {ipfspeers[i].ID : i \in 1..Len(ipfspeers)}
              \in {{}, {bootstrap[i].id : i \in 1..Len(bootstrap)}}

C10_Witness ==
    /\ psRet /\ num = 2 /\ Len(ipfspeers) = 2 /\ Len(bootstrap) = 3
    /\ Len(peerChan) = 2 /\ chanClosed

====
